---- MODULE Spec2Model ----
(***************************************************************************)
(* Ajane (src/Ajane.h): revision based incremental synchronisation of a    *)
(* tree of widgets between a small web server and polling browser clients. *)
(*                                                                         *)
(* The header holds the output driver's revision clock, the containers,    *)
(* the text input and the radio group.  The bodies the header only         *)
(* declares (AjaneElement::setChanged/changed/sendUpdates,                 *)
(* AjaneCheckButton::setChecked/updateFromDriverArg,                       *)
(* AjaneBase::handleRequest, ...) are modelled from spec.md and are marked *)
(* "spec.md" in the comment above each such definition.                    *)
(***************************************************************************)
EXTENDS Integers, Sequences, FiniteSets, TLC

(* ------------------------------------------------------------------ *)
(* Program constants                                                   *)
(* ------------------------------------------------------------------ *)

\* uint16_t _revision, next_revision (Ajane.h:142-143): arithmetic modulo 2^16
RevisionBits == 16
RevisionMod == 2 ^ RevisionBits

\* int8_t _current_option (Ajane.h:563) and uint8_t num (Ajane.h:543)
ByteBits == 8
ByteMod == 2 ^ ByteBits

\* AjaneRadioGroup<NUM>: the group of the spec's scenario has three options
NUM == 3

\* AjaneTextInput<SIZE>: the text input of the spec's scenario has capacity 8
SIZE == 8

(* ------------------------------------------------------------------ *)
(* Bounds of the model                                                 *)
(* ------------------------------------------------------------------ *)

\* mutations are only issued while the visible revision is below MaxRev
MaxRev == 3
\* the count of setChanged calls since the last commit saturates here
MaxMarks == 2
\* the count of consecutive nextRevision calls saturates here
MaxCommits == 2
\* an Update request submits at most MaxFields fields
MaxFields == 2

(* ------------------------------------------------------------------ *)
(* The modelled page                                                   *)
(* ------------------------------------------------------------------ *)

\* radio buttons of the group: childids[i] = id_base + itoa(i) (Ajane.h:531-533)
ButtonId(i) == CASE i = 0 -> "opt0" [] i = 1 -> "opt1" [] i = 2 -> "opt2" [] OTHER -> "opt3"
Buttons == {ButtonId(i) : i \in 0..(NUM - 1)}
ButtonIndex(b) == CHOOSE i \in 0..(NUM - 1) : ButtonId(i) = b

\* enum AjaneBase::Property (Ajane.h:69-75): the numbers of the properties,
\* and of the bits of AjaneElement::_flags
Visibility == 0
Enabledness == 1
Value == 2
BasicProperties == {Visibility, Enabledness}

\* every AjaneElement of the page, by id
CheckButtons == {"ok"} \cup Buttons
Elements == {"name", "ok", "box", "info"} \cup Buttons

Min(a, b) == IF a < b THEN a ELSE b

VARIABLES
    _revision,        \* AjaneOutputDriverBase::_revision  (visible revision)
    next_revision,    \* AjaneOutputDriverBase::next_revision (pending revision)
    revision,         \* AjaneElement::revision, per element (last_changed)
    _checked,         \* AjaneCheckButton::_checked, per check button
    _current_option,  \* AjaneRadioGroup::_current_option (int8_t)
    _value,           \* AjaneTextInput::_value (char[SIZE]) and AjaneMutableSpan::_value
    _flags,           \* AjaneElement::_flags, per element: the set of the bits that are set
    ret,              \* history: value returned by the last driver setChanged()
    marks,            \* history: setChanged() calls since the last nextRevision()
    commits,          \* history: consecutive nextRevision() calls since the last setChanged()
    pc,               \* position inside a radio group operation that is executed stepwise
    completed,        \* history: the operation that returned last, with its argument
    req,              \* the request AjanePage::handleRequest is handling, and its position
    resp,             \* the response on its way to the client
    baseline,         \* the revision the client received last
    owed,             \* history: elements marked changed since the client received baseline
    batch,            \* history: elements mutated since the last commit
    committedBatch    \* history: the batch of the last commit, less what was mutated since

vars == <<_revision, next_revision, revision, _checked, _current_option, _value, _flags,
          ret, marks, commits, pc, completed,
          req, resp, baseline, owed, batch, committedBatch>>

radioVars == <<pc, completed>>
syncVars == <<req, resp, baseline, owed, batch, committedBatch>>

\* the program state as one record, as the operators below transform it
St ==
    [_revision |-> _revision, next_revision |-> next_revision, revision |-> revision,
     _checked |-> _checked, _current_option |-> _current_option, _value |-> _value,
     _flags |-> _flags,
     ret |-> ret, marks |-> marks, commits |-> commits, touched |-> {}]

Install(s) ==
    /\ _revision' = s._revision
    /\ next_revision' = s.next_revision
    /\ revision' = s.revision
    /\ _checked' = s._checked
    /\ _current_option' = s._current_option
    /\ _value' = s._value
    /\ _flags' = s._flags
    /\ ret' = s.ret
    /\ marks' = s.marks
    /\ commits' = s.commits

(* ------------------------------------------------------------------ *)
(* AjaneOutputDriverBase: the Change Clock (Ajane.h:110-144)           *)
(* ------------------------------------------------------------------ *)

\* mutant: the pending revision is returned instead of the visible one
Driver_revision_pending(s) == s.next_revision

\* uint16_t revision() const { return _revision; }
Driver_revision(s) == s._revision

\* mutant: the pending revision is advanced on every call
Driver_setChanged_counting(s) ==
    [s EXCEPT !.next_revision = (s.next_revision + 1) % RevisionMod,
              !.ret = (s.next_revision + 1) % RevisionMod,
              !.marks = Min(s.marks + 1, MaxMarks),
              !.commits = 0]

\* mutant: the pending revision is the visible one (the + 1 is missing)
Driver_setChanged_stale(s) ==
    [s EXCEPT !.next_revision = s._revision,
              !.ret = s._revision,
              !.marks = Min(s.marks + 1, MaxMarks),
              !.commits = 0]

\* mutant: the change is published at once, without waiting for the commit
Driver_setChanged_immediate(s) ==
    [s EXCEPT !._revision = (s._revision + 1) % RevisionMod,
              !.next_revision = (s._revision + 1) % RevisionMod,
              !.ret = (s._revision + 1) % RevisionMod,
              !.marks = Min(s.marks + 1, MaxMarks),
              !.commits = 0]

\* uint16_t setChanged() { next_revision = _revision+1; return (next_revision); }
Driver_setChanged(s) ==
    [s EXCEPT !.next_revision = (s._revision + 1) % RevisionMod,
              !.ret = (s._revision + 1) % RevisionMod,
              !.marks = Min(s.marks + 1, MaxMarks),
              !.commits = 0]

\* mutant: the commit always advances the visible revision
Driver_nextRevision_always(s) ==
    [s EXCEPT !._revision = (s._revision + 1) % RevisionMod,
              !.next_revision = (s._revision + 1) % RevisionMod,
              !.marks = 0,
              !.commits = Min(s.commits + 1, MaxCommits)]

\* mutant: the commit does not publish the pending revision
Driver_nextRevision_keeps(s) ==
    [s EXCEPT !.marks = 0,
              !.commits = Min(s.commits + 1, MaxCommits)]

\* void nextRevision() { _revision = next_revision; }
Driver_nextRevision(s) ==
    [s EXCEPT !._revision = s.next_revision,
              !.marks = 0,
              !.commits = Min(s.commits + 1, MaxCommits)]

(* ------------------------------------------------------------------ *)
(* Construction                                                        *)
(* ------------------------------------------------------------------ *)

\* AjaneOutputDriverBase(): _revision = 1; next_revision = _revision;
InitDriver ==
    /\ _revision = 1
    /\ next_revision = 1
    /\ ret = 0
    /\ marks = 0
    /\ commits = 0

\* the conversions between uint8_t and int8_t (two's complement)
ToInt8(n) == IF n % ByteMod >= ByteMod \div 2 THEN (n % ByteMod) - ByteMod ELSE n % ByteMod
ToUint8(n) == n % ByteMod

Idle == [at |-> "idle", i |-> 0, arg |-> 0]
NoOperation == [op |-> "none", arg |-> 0]

\* the terminator of a C string, and the empty char[SIZE] buffer
NUL == "NUL"
EmptyBuffer == [i \in 1..SIZE |-> NUL]

\* a request in progress: the client's since, the phase it is in (at), the
\* position of the apply pass (pos), and its history: the visible revision it
\* began at, the fields it has processed and applied, and the hook's calls
NoRequest ==
    [kind |-> "none", at |-> 0, since |-> 0, pos |-> 0, applied |-> 0, done |-> {},
     visible |-> 0, fields |-> {}, hooks |-> 0, hooked |-> {}]

\* a response: the since it answers, the returned revision and the payload, and
\* its history: the fields of the Update it answers or follows (echo), and the
\* number of polls with this since answered in a row (polls)
NoEcho == [since |-> -1, visible |-> 0, fields |-> {}, hooked |-> {}]
NoResponse == [since |-> -1, revision |-> 0, out |-> <<>>, polls |-> 0, echo |-> NoEcho]

\* spec.md 3 (AjaneElement::AjaneElement, declared Ajane.h:237): last_changed
\* is the revision the clock shows at construction; an element is constructed
\* visible and enabled
InitElements ==
    /\ revision = [e \in Elements |-> 1]
    /\ _flags = [e \in Elements |-> BasicProperties]

\* spec.md 2: no request is in progress, and the client has loaded the page and
\* holds the revision of that moment as its baseline
InitSync ==
    /\ req = NoRequest
    /\ resp = NoResponse
    /\ baseline = 1
    /\ owed = {}
    /\ batch = {}
    /\ committedBatch = {}

\* AjaneRadioGroup(id_base, options, selected_option): button i is checked iff
\* i == selected_option, and _current_option = selected_option (Ajane.h:529-541)
InitPage(selected_option) ==
    /\ InitDriver
    /\ InitElements
    /\ InitSync
    /\ _checked = [b \in CheckButtons |->
                      \E i \in 0..(NUM - 1) : b = ButtonId(i) /\ i = selected_option]
    /\ _current_option = ToInt8(selected_option)
    /\ _value = [w \in {"name", "info"} |-> IF w = "name" THEN EmptyBuffer ELSE <<>>]
    /\ pc = Idle
    /\ completed = NoOperation

\* the default: selected_option = 0
Init == InitPage(0)

(* ------------------------------------------------------------------ *)
(* AjaneElement and AjaneCheckButton                                   *)
(* ------------------------------------------------------------------ *)

\* spec.md 4.2 mark_property_changed (void AjaneElement::setChanged(), declared
\* Ajane.h:285): calls the clock's mark_dirty and records
\* last_changed = pending_revision.
Element_setChanged(s, e) ==
    LET d == Driver_setChanged(s)
    IN  [d EXCEPT !.revision[e] = d.next_revision,
                  !.touched = @ \cup {e}]

\* spec.md 4.3 (void AjaneCheckButton::setChecked(bool), declared Ajane.h:427):
\* the state is set and the button is marked only if its state changed.
CheckButton_setChecked(s, b, checked) ==
    IF s._checked[b] = checked
    THEN s
    ELSE Element_setChanged([s EXCEPT !._checked[b] = checked], b)

(* ------------------------------------------------------------------ *)
(* AjaneRadioGroup<NUM> (Ajane.h:522-574)                              *)
(* ------------------------------------------------------------------ *)

\* mutant: only the selected button is set, the others are left as they are
selectOption_iteration_no_uncheck(s, i, num) ==
    IF i = num THEN CheckButton_setChecked(s, ButtonId(i), TRUE) ELSE s

\* mutant: every button is marked changed, whether or not its state changed
selectOption_iteration_always_marks(s, i, num) ==
    Element_setChanged([s EXCEPT !._checked[ButtonId(i)] = (i = num)], ButtonId(i))

\* one iteration of the loop of selectOption(uint8_t num):
\*     buttons[i].setChecked(i == num);
selectOption_iteration(s, i, num) ==
    CheckButton_setChecked(s, ButtonId(i), i = num)

\* _current_option = num;  (uint8_t stored in an int8_t)
selectOption_assign(s, num) ==
    [s EXCEPT !._current_option = ToInt8(num)]

RECURSIVE selectOption_loop(_, _, _)
\* for (uint8_t i = 0; i < NUM; ++i) { ... }, from iteration i on
selectOption_loop(s, i, num) ==
    IF i >= NUM
    THEN s
    ELSE selectOption_loop(selectOption_iteration(s, i, num), i + 1, num)

\* void selectOption(uint8_t num)
selectOption(s, num) ==
    selectOption_assign(selectOption_loop(s, 0, num), num)

\* uint8_t selectedOption() const { return _current_option; }
selectedOption(s) == ToUint8(s._current_option)

\* _current_option = -1;  on entry of selectOption(AjaneCheckButton* which)
dispatch_enter(s) ==
    [s EXCEPT !._current_option = -1]

\* one iteration of the loop of selectOption(AjaneCheckButton* which):
\*     if (which == buttonpointers[i]) _current_option = i;
\*     else buttons[i].setChecked(false);
dispatch_iteration(s, i, which) ==
    IF which = ButtonId(i)
    THEN [s EXCEPT !._current_option = ToInt8(i)]
    ELSE CheckButton_setChecked(s, ButtonId(i), FALSE)

RECURSIVE dispatch_loop(_, _, _)
dispatch_loop(s, i, which) ==
    IF i >= NUM
    THEN s
    ELSE dispatch_loop(dispatch_iteration(s, i, which), i + 1, which)

\* void selectOption(AjaneCheckButton* which) override
selectOption_which(s, which) ==
    dispatch_loop(dispatch_enter(s), 0, which)

\* spec.md 4.2 apply_inbound (AjaneCheckButton::updateFromDriverArg, declared
\* Ajane.h:431): the inbound value becomes the button's state ...
updateFromDriverArg_assign(s, b, v) ==
    [s EXCEPT !._checked[b] = v]

\* ... and spec.md 4.3: a member of a group that was checked by the inbound
\* update reports to its group (radiogroup->selectOption(this), Ajane.h:437,445)
updateFromDriverArg_dispatches(b, v) ==
    v /\ b \in Buttons

CheckButton_updateFromDriverArg(s, b, v) ==
    LET a == updateFromDriverArg_assign(s, b, v)
    IN  IF updateFromDriverArg_dispatches(b, v) THEN selectOption_which(a, b) ELSE a

(* ------------------------------------------------------------------ *)
(* AjaneMutableSpan and AjaneTextInput<SIZE>                           *)
(* ------------------------------------------------------------------ *)

\* spec.md 4.2 (AjaneMutableSpan::setValue, declared Ajane.h:311): the value is
\* replaced and the span is marked changed.
MutableSpan_setValue(s, v) ==
    Element_setChanged([s EXCEPT !._value["info"] = v], "info")

\* strncpy(dest, src, n): n chars are written, src's and then NULs; when src has
\* n chars or more no NUL is written
strncpy(src, n) ==
    [i \in 1..n |-> IF i <= Len(src) THEN src[i] ELSE NUL]

\* void setValue(const char* value) { strncpy(_value, value, SIZE); }
TextInput_setValue(s, v) ==
    [s EXCEPT !._value["name"] = strncpy(v, SIZE)]

\* mutant: the chars are copied without the terminator (as strncpy would)
getArg_no_terminator(buf, raw, buflen) ==
    LET n == Min(Len(raw), buflen)
    IN  [i \in 1..Len(buf) |-> IF i <= n THEN raw[i] ELSE buf[i]]

\* AjaneOutputDriverESP8266::getArg: _server->arg(name).toCharArray(buf, buflen)
\* writes at most buflen-1 chars and a NUL after them; the rest of buf is kept
getArg(buf, raw, buflen) ==
    LET n == Min(Len(raw), buflen - 1)
    IN  [i \in 1..Len(buf) |->
            IF i <= n THEN raw[i] ELSE IF i = n + 1 THEN NUL ELSE buf[i]]

\* void updateFromDriverArg(const char* argname) { _driver->getArg(argname, _value, SIZE); }
TextInput_updateFromDriverArg(s, raw) ==
    [s EXCEPT !._value["name"] = getArg(s._value["name"], raw, SIZE)]

\* the C string a char buffer holds: the chars before the first NUL; a buffer
\* without a NUL is read past its end, into bytes that are not the program's
Overrun == "overrun"
Terminated(buf) == \E i \in 1..Len(buf) : buf[i] = NUL
RECURSIVE strlen(_, _)
strlen(buf, i) ==
    IF i > Len(buf) \/ buf[i] = NUL THEN i - 1 ELSE strlen(buf, i + 1)
CString(buf) ==
    IF Terminated(buf) THEN SubSeq(buf, 1, strlen(buf, 1)) ELSE buf \o <<Overrun>>

\* const char* value(Value) const { return _value; }  (AjaneTextInput, Ajane.h:332-335)
TextInput_value(s) == CString(s._value["name"])

\* spec.md 4.2 render_value (AjaneMutableSpan::value, declared Ajane.h:301)
MutableSpan_value(s) == s._value["info"]

\* spec.md 4.2 render_value (AjaneCheckButton::value, declared Ajane.h:425):
\* the boolean state as the text the client sets the 'checked' property from
True == <<"t", "r", "u", "e">>
False == <<"f", "a", "l", "s", "e">>
CheckButton_value(s, b) == IF s._checked[b] THEN True ELSE False

\* bool basicProperty(uint8_t num) const { return (_flags & (1 << num)); }
basicProperty(s, e, num) == num \in s._flags[e]

\* the null pointer value() returns for a property the element does not have
Null == <<"(null)">>

\* the virtual call element->value(Value); the base class has no Value (returns 0)
Element_value(s, e) ==
    CASE e = "name" -> TextInput_value(s)
      [] e = "info" -> MutableSpan_value(s)
      [] e \in CheckButtons -> CheckButton_value(s, e)
      [] OTHER -> Null

\* AjaneElement::value(which), the base class's part:
\*     if (which == Visibility) return (basicProperty(Visibility) ? "initial" : "none");
\*     if (which == Enabledness) return (basicProperty(Enabledness) ? "" : "disabled");
\*     return 0;
\* with the derived class's Value before it
Initial == <<"i", "n", "i", "t", "i", "a", "l">>
None == <<"n", "o", "n", "e">>
Disabled == <<"d", "i", "s", "a", "b", "l", "e", "d">>
Element_valueOf(s, e, which) ==
    CASE which = Value -> Element_value(s, e)
      [] which = Visibility -> IF basicProperty(s, e, Visibility) THEN Initial ELSE None
      [] which = Enabledness -> IF basicProperty(s, e, Enabledness) THEN <<>> ELSE Disabled
      [] OTHER -> Null

(* ------------------------------------------------------------------ *)
(* The page: the tree of AjaneBase objects                             *)
(* ------------------------------------------------------------------ *)

Node(kind, id, children) == [kind |-> kind, id |-> id, children |-> children]

\* AjanePage<4>: a text input, a check button, a hideable container holding a
\* static chunk and a span, and the radio group (an AjaneContainer<NUM> of its
\* buttons, Ajane.h:522,539)
RadioGroupNode ==
    Node("container", "", [i \in 1..NUM |-> Node("element", ButtonId(i - 1), <<>>)])

PageNode ==
    Node("container", "",
         << Node("element", "name", <<>>),
            Node("element", "ok", <<>>),
            Node("hideable", "box",
                 << Node("static", "", <<>>), Node("element", "info", <<>>) >>),
            RadioGroupNode >>)

\* the elements in the order a depth-first walk of the page meets them
TreeOrder == <<"name", "ok", "box", "info">> \o [i \in 1..NUM |-> ButtonId(i - 1)]

(* ------------------------------------------------------------------ *)
(* setVisible / setEnabled: the broadcast of a basic property          *)
(* ------------------------------------------------------------------ *)

\* spec.md 4.2 mark_property_changed (void AjaneElement::setBasicProperty(uint8_t
\* num, bool status), declared Ajane.h:278): sets the flag bit and marks the element.
Element_setBasicProperty(s, e, num, status) ==
    Element_setChanged(
        [s EXCEPT !._flags[e] = IF status THEN @ \cup {num} ELSE @ \ {num}], e)

\* virtual void AjaneBase::setBasicProperty(uint8_t num, bool status) {};
Base_setBasicProperty(s, num, status) == s

RECURSIVE setBasicProperty(_, _, _, _)
RECURSIVE Container_setBasicProperty_loop(_, _, _, _, _)

\* for (int i = 0; i < NUM; ++i) { _children[i]->setBasicProperty(num, status); }
Container_setBasicProperty_loop(s, children, i, num, status) ==
    IF i > Len(children)
    THEN s
    ELSE Container_setBasicProperty_loop(
             setBasicProperty(s, children[i], num, status), children, i + 1, num, status)

\* AjaneContainer::setBasicProperty
Container_setBasicProperty(s, node, num, status) ==
    Container_setBasicProperty_loop(s, node.children, 1, num, status)

\* mutant: the property is handed to the children, the container's own is forgotten
Hideable_setBasicProperty_children_only(s, node, num, status) ==
    Container_setBasicProperty(s, node, num, status)

\* AjaneHideableContainer::setBasicProperty:
\*     AjaneElement::setBasicProperty(num, status);
\*     _childlist.setBasicProperty(num, status);
Hideable_setBasicProperty(s, node, num, status) ==
    Container_setBasicProperty(
        Element_setBasicProperty(s, node.id, num, status), node, num, status)

\* the virtual call node->setBasicProperty(num, status)
setBasicProperty(s, node, num, status) ==
    CASE node.kind = "element" -> Element_setBasicProperty(s, node.id, num, status)
      [] node.kind = "hideable" -> Hideable_setBasicProperty(s, node, num, status)
      [] node.kind = "container" -> Container_setBasicProperty(s, node, num, status)
      [] OTHER -> Base_setBasicProperty(s, num, status)

\* void setVisible(bool visible) { setBasicProperty(Visibility, visible); }
Base_setVisible(s, node, visible) == setBasicProperty(s, node, Visibility, visible)

\* void setEnabled(bool enabled) { setBasicProperty(Enabledness, enabled); }
Base_setEnabled(s, node, enabled) == setBasicProperty(s, node, Enabledness, enabled)

(* ------------------------------------------------------------------ *)
(* sendUpdates: the outbound diff                                      *)
(* ------------------------------------------------------------------ *)

\* what a sendUpdates call wrote, piece by piece (an element's record is its id
\* with its value, the delimiter is the piece with id ","), and what it returned
Written(out, sent) == [out |-> out, sent |-> sent]
Delimiter == [id |-> ",", changes |-> <<>>]

RECURSIVE Changes(_, _, _)
\* spec.md 4.3/6: the properties of the record of an element, from property i
\* on.  The element keeps one revision for all its properties (Ajane.h:290-291),
\* so that every property it has a value for is in the record.
Changes(s, e, i) ==
    IF Element_valueOf(s, e, i) = Null
    THEN <<>>
    ELSE <<[which |-> i, value |-> Element_valueOf(s, e, i)]>> \o Changes(s, e, i + 1)

\* spec.md 4.3/6: the record of an element, {id, property: value, ...}
Record(s, e) == [id |-> e, changes |-> Changes(s, e, Visibility)]

\* the record holds value v for the element's Value
HasValue(r, v) ==
    \E i \in 1..Len(r.changes) : r.changes[i] = [which |-> Value, value |-> v]

\* spec.md 4.2 has_changed_since (bool AjaneElement::changed(uint16_t since),
\* declared Ajane.h:286): last_changed is strictly newer than since.
Element_changed(s, e, since) == s.revision[e] > since

\* virtual bool AjaneBase::sendUpdates(uint16_t since, bool first) { return false; }
Base_sendUpdates(s, since, first) == Written(<<>>, FALSE)

\* spec.md 4.3 diff_since, leaf case (AjaneElement::sendUpdates, declared
\* Ajane.h:242): a changed element writes a ',' unless it is first, then its record.
Element_sendUpdates(s, e, since, first) ==
    IF Element_changed(s, e, since)
    THEN Written((IF first THEN <<>> ELSE <<Delimiter>>) \o <<Record(s, e)>>, TRUE)
    ELSE Written(<<>>, FALSE)

RECURSIVE sendUpdates(_, _, _, _)
RECURSIVE Children_sendUpdates(_, _, _, _, _)

\* spec.md 4.3 diff_since, composite case (AjaneBase::sendUpdates(children, num,
\* since, first), declared Ajane.h:91): each child in order, 'first' turning false
\* once a record has been written; returns whether any child wrote.
Children_sendUpdates(s, children, i, since, first) ==
    IF i > Len(children)
    THEN Written(<<>>, FALSE)
    ELSE LET head == sendUpdates(s, children[i], since, first)
             tail == Children_sendUpdates(s, children, i + 1, since, first /\ ~head.sent)
         IN  Written(head.out \o tail.out, head.sent \/ tail.sent)

\* AjaneContainer::sendUpdates: return AjaneBase::sendUpdates(_children, NUM, since, first);
Container_sendUpdates(s, node, since, first) ==
    Children_sendUpdates(s, node.children, 1, since, first)

\* mutant: the children are only visited when the container itself has changed
Hideable_sendUpdates_own_only(s, node, since, first) ==
    LET sent == Element_sendUpdates(s, node.id, since, first)
        sent2 == IF sent.sent
                 THEN Container_sendUpdates(s, node, since, first /\ ~sent.sent)
                 ELSE Written(<<>>, FALSE)
    IN  Written(sent.out \o sent2.out, sent.sent \/ sent2.sent)

\* mutant: 'first' is handed to the children as it came (first && !sent is missing)
Hideable_sendUpdates_first_unthreaded(s, node, since, first) ==
    LET sent == Element_sendUpdates(s, node.id, since, first)
        sent2 == Container_sendUpdates(s, node, since, first)
    IN  Written(sent.out \o sent2.out, sent.sent \/ sent2.sent)

\* mutant: what the children wrote is not reported (return sent;)
Hideable_sendUpdates_returns_own(s, node, since, first) ==
    LET sent == Element_sendUpdates(s, node.id, since, first)
        sent2 == Container_sendUpdates(s, node, since, first /\ ~sent.sent)
    IN  Written(sent.out \o sent2.out, sent.sent)

\* AjaneHideableContainer::sendUpdates:
\*     bool sent = AjaneElement::sendUpdates(since, first);
\*     bool sent2 = _childlist.sendUpdates(since, first && !sent);
\*     return sent || sent2;
Hideable_sendUpdates(s, node, since, first) ==
    LET sent == Element_sendUpdates(s, node.id, since, first)
        sent2 == Container_sendUpdates(s, node, since, first /\ ~sent.sent)
    IN  Written(sent.out \o sent2.out, sent.sent \/ sent2.sent)

\* the virtual call node->sendUpdates(since, first)
sendUpdates(s, node, since, first) ==
    CASE node.kind = "element" -> Element_sendUpdates(s, node.id, since, first)
      [] node.kind = "hideable" -> Hideable_sendUpdates(s, node, since, first)
      [] node.kind = "container" -> Container_sendUpdates(s, node, since, first)
      [] OTHER -> Base_sendUpdates(s, since, first)

\* the records of a written payload, and the elements that have one
RecordsOf(out) == {out[i] : i \in 1..Len(out)} \ {Delimiter}
IdsOf(out) == {r.id : r \in RecordsOf(out)}

\* the elements in the diff of the page against baseline since
Diff(s, since) == IdsOf(sendUpdates(s, PageNode, since, TRUE).out)

(* ------------------------------------------------------------------ *)
(* findChild: the element an inbound field is for                      *)
(* ------------------------------------------------------------------ *)

\* the null pointer findChild returns when no element has the id
NoElement == ""

\* virtual AjaneElement* AjaneBase::findChild(const char* id) const { return 0; }
Base_findChild(node, id) == NoElement

\* virtual AjaneElement* toElement(): 0 in AjaneBase, this in AjaneElement
toElement(node) == IF node.kind \in {"element", "hideable"} THEN node.id ELSE NoElement

RECURSIVE findChild(_, _)
RECURSIVE Children_findChild(_, _, _)

\* spec.md 4.3 find_by_id (AjaneBase::findChild(children, num, id), declared
\* Ajane.h:93): depth-first search, first match wins.
Children_findChild(children, i, id) ==
    IF i > Len(children)
    THEN NoElement
    ELSE IF toElement(children[i]) # NoElement /\ toElement(children[i]) = id
         THEN toElement(children[i])
         ELSE LET sub == findChild(children[i], id)
              IN  IF sub # NoElement THEN sub ELSE Children_findChild(children, i + 1, id)

\* AjaneContainer::findChild: return AjaneBase::findChild(_children, NUM, id);
Container_findChild(node, id) == Children_findChild(node.children, 1, id)

\* mutant: the container answers for itself when none of its children matches
Hideable_findChild_self(node, id) ==
    LET e == Container_findChild(node, id)
    IN  IF e # NoElement THEN e ELSE node.id

\* AjaneHideableContainer::findChild: return _childlist.findChild(id);
Hideable_findChild(node, id) == Container_findChild(node, id)

\* the virtual call node->findChild(id)
findChild(node, id) ==
    CASE node.kind = "container" -> Container_findChild(node, id)
      [] node.kind = "hideable" -> Hideable_findChild(node, id)
      [] OTHER -> Base_findChild(node, id)

(* ------------------------------------------------------------------ *)
(* AjanePage::handleRequest (declared Ajane.h:97, 645): spec.md 4.4    *)
(* ------------------------------------------------------------------ *)

\* spec.md 4.4: a since that has wrapped past the visible revision means "send
\* everything": a baseline older than every revision
SendEverything == -1
EffectiveSince(s, since) ==
    IF since > Driver_revision(s) THEN SendEverything ELSE since

\* spec.md 4.2 apply_inbound by kind of element, then the mark that
\* updateFromDriverArg "need not" make itself (Ajane.h:268-269)
IsTrue(raw) == Len(raw) > 0 /\ raw[1] = "t"

\* mutant: the element's override is not called, the base class does nothing
Element_updateFromDriverArg_base(s, e, raw) == s

\* the virtual call element->updateFromDriverArg("value")
Element_updateFromDriverArg(s, e, raw) ==
    CASE e = "name" -> TextInput_updateFromDriverArg(s, raw)
      [] e \in CheckButtons -> CheckButton_updateFromDriverArg(s, e, IsTrue(raw))
      [] OTHER -> s

ApplyField(s, e, raw) ==
    Element_setChanged(Element_updateFromDriverArg(s, e, raw), e)

\* spec.md 4.4: a field whose id matches no widget is silently ignored
ApplyInboundField(s, id, raw) ==
    LET e == findChild(PageNode, id)
    IN  IF e = NoElement THEN s ELSE ApplyField(s, e, raw)

\* the reaction hook: server code of the page's program; the modelled programs
\* do nothing, set the span, or select an option of the group
HookChoices == {"none", "span", "select"}
RunHook(s, hook) ==
    CASE hook = "span" -> MutableSpan_setValue(s, <<"x">>)
      [] hook = "select" -> selectOption(s, NUM - 1)
      [] OTHER -> s

\* mutant: the reaction hook is not called
handleRequest_order_no_hook == <<"apply", "commit", "diff">>

\* spec.md 4.4: inbound applications, then the hook, then commit, then the diff
handleRequest_order == <<"apply", "hook", "commit", "diff">>

\* the response: the visible revision and the diff against the client's since
Response(s, since) ==
    [since |-> since,
     revision |-> Driver_revision(s),
     out |-> sendUpdates(s, PageNode, EffectiveSince(s, since), TRUE).out,
     polls |-> 0,
     echo |-> NoEcho]

\* mutant: a Poll commits the pending revision after it has computed its diff
pollRequest_order_commit_after == <<"diff", "commit">>

\* spec.md 4.4 Poll: the diff and the visible revision; no mutation occurs
pollRequest_order == <<"diff">>

RECURSIVE RunPhases(_, _, _, _, _)
\* the phases of order from the i-th on, without inbound fields and hook
RunPhases(s, since, order, i, response) ==
    IF i > Len(order)
    THEN [s |-> s, resp |-> response]
    ELSE CASE order[i] = "commit" ->
                  RunPhases(Driver_nextRevision(s), since, order, i + 1, response)
           [] order[i] = "diff" ->
                  RunPhases(s, since, order, i + 1, Response(s, since))
           [] OTHER -> RunPhases(s, since, order, i + 1, response)

(* ------------------------------------------------------------------ *)
(* The Change Clock on its own: any sequence of setChanged/nextRevision *)
(* ------------------------------------------------------------------ *)

MarkDirty ==
    /\ Install(Driver_setChanged(St))
    /\ UNCHANGED <<pc, completed>>
    /\ UNCHANGED syncVars

Commit ==
    /\ Install(Driver_nextRevision(St))
    /\ UNCHANGED <<pc, completed>>
    /\ UNCHANGED syncVars

NextClock == MarkDirty \/ Commit

SpecClock == Init /\ [][NextClock]_vars

(* ------------------------------------------------------------------ *)
(* Claims about the Change Clock (checked under SpecClock)             *)
(* ------------------------------------------------------------------ *)

\* C5: in every state reachable by setChanged/nextRevision calls the pending
\* revision equals the visible revision or the visible revision + 1 (16 bit).
C5_PendingIsVisibleOrNext ==
    \/ next_revision = _revision
    \/ next_revision = (_revision + 1) % RevisionMod

\* C5 witness: a change is pending across the 16-bit wraparound (65535 -> 0)
C5_Witness ==
    /\ marks >= 1
    /\ _revision = RevisionMod - 1
    /\ next_revision = 0

\* C6: setChanged leaves the visible revision unchanged, and every nextRevision
\* leaves it unchanged or increases it by exactly 1 modulo 2^16.
C6_Monotonic ==
    [][ /\ (MarkDirty => _revision' = _revision)
        /\ (Commit => \/ _revision' = _revision
                      \/ _revision' = (_revision + 1) % RevisionMod) ]_vars

\* C6 witness: a commit has advanced the visible revision past the wraparound
C6_Witness ==
    /\ commits = 1
    /\ _revision = 0
    /\ next_revision = 0

\* C7: every setChanged call between two commits returns visible revision + 1
\* and leaves that same pending revision, whatever the number of calls, and the
\* commit that follows one or more calls advances the visible revision by 1.
C7_MarkDirtyCoalesces ==
    [][ /\ (MarkDirty => /\ ret' = (_revision + 1) % RevisionMod
                         /\ next_revision' = ret'
                         /\ _revision' = _revision)
        /\ (Commit /\ marks >= 1 => _revision' = (_revision + 1) % RevisionMod) ]_vars

\* C7 witness: two or more setChanged calls since the last commit, one pending revision
C7_Witness ==
    /\ marks >= 2
    /\ _revision > 1
    /\ ret = (_revision + 1) % RevisionMod
    /\ next_revision = ret

\* C8: nextRevision with nothing pending changes nothing, and the second of two
\* consecutive nextRevision calls leaves the clock as the first one left it.
C8_CommitIdempotent ==
    [][ /\ (Commit /\ next_revision = _revision
               => UNCHANGED <<_revision, next_revision>>)
        /\ (Commit /\ commits >= 1
               => UNCHANGED <<_revision, next_revision>>) ]_vars

\* C8 witness: two consecutive commits after a change was published
C8_Witness ==
    /\ commits >= 2
    /\ _revision = 2
    /\ next_revision = 2

(* ------------------------------------------------------------------ *)
(* The radio group on its own, its operations executed statement by    *)
(* statement, so that the states inside an operation are states of the *)
(* model.                                                              *)
(* ------------------------------------------------------------------ *)

\* arguments of selectOption(uint8_t): every index, the first out of range,
\* the spec's 5, and values around the sign bit of the int8_t
NumInputs == (0..NUM) \cup {5, 127, 128, 255}

\* constructor arguments: an option selected, or none (selected_option = NUM)
InitRadio == \E selected_option \in 0..NUM : InitPage(selected_option)

CallSelectOption ==
    \E num \in NumInputs :
        /\ pc.at = "idle"
        /\ _revision < MaxRev
        /\ pc' = [at |-> "selectOption", i |-> 0, arg |-> num]
        /\ completed' = NoOperation
        /\ Install(St)
        /\ UNCHANGED syncVars

StepSelectOption ==
    /\ pc.at = "selectOption"
    /\ pc.i < NUM
    /\ Install(selectOption_iteration(St, pc.i, pc.arg))
    /\ pc' = [pc EXCEPT !.i = pc.i + 1]
    /\ UNCHANGED completed
    /\ UNCHANGED syncVars

ReturnSelectOption ==
    /\ pc.at = "selectOption"
    /\ pc.i >= NUM
    /\ Install(selectOption_assign(St, pc.arg))
    /\ pc' = Idle
    /\ completed' = [op |-> "selectOption", arg |-> pc.arg]
    /\ UNCHANGED syncVars

\* an inbound update for one member of the group: the assignment of
\* updateFromDriverArg, then (if the member reports) the group's dispatch
CallUpdateFromDriverArg ==
    \E i \in 0..(NUM - 1), v \in BOOLEAN :
        /\ pc.at = "idle"
        /\ _revision < MaxRev
        /\ Install(updateFromDriverArg_assign(St, ButtonId(i), v))
        /\ pc' = [at |-> "updateFromDriverArg", i |-> 0, arg |-> i]
        /\ completed' = NoOperation
        /\ UNCHANGED syncVars

EnterDispatch ==
    /\ pc.at = "updateFromDriverArg"
    /\ updateFromDriverArg_dispatches(ButtonId(pc.arg), _checked[ButtonId(pc.arg)])
    /\ Install(dispatch_enter(St))
    /\ pc' = [pc EXCEPT !.at = "dispatch"]
    /\ UNCHANGED completed
    /\ UNCHANGED syncVars

StepDispatch ==
    /\ pc.at = "dispatch"
    /\ pc.i < NUM
    /\ Install(dispatch_iteration(St, pc.i, ButtonId(pc.arg)))
    /\ pc' = [pc EXCEPT !.i = pc.i + 1]
    /\ UNCHANGED completed
    /\ UNCHANGED syncVars

ReturnUpdateFromDriverArg ==
    /\ \/ pc.at = "dispatch" /\ pc.i >= NUM
       \/ /\ pc.at = "updateFromDriverArg"
          /\ ~updateFromDriverArg_dispatches(ButtonId(pc.arg), _checked[ButtonId(pc.arg)])
    /\ Install(St)
    /\ pc' = Idle
    /\ completed' = [op |-> "updateFromDriverArg", arg |-> pc.arg]
    /\ UNCHANGED syncVars

CommitRadio ==
    /\ pc.at = "idle"
    /\ Install(Driver_nextRevision(St))
    /\ UNCHANGED <<pc, completed>>
    /\ UNCHANGED syncVars

NextRadio ==
    \/ CallSelectOption
    \/ StepSelectOption
    \/ ReturnSelectOption
    \/ CallUpdateFromDriverArg
    \/ EnterDispatch
    \/ StepDispatch
    \/ ReturnUpdateFromDriverArg
    \/ CommitRadio

SpecRadio == InitRadio /\ [][NextRadio]_vars

\* the server program's calls alone: selectOption(uint8_t) and the commits
NextSelect ==
    \/ CallSelectOption
    \/ StepSelectOption
    \/ ReturnSelectOption
    \/ CommitRadio

SpecSelect == InitRadio /\ [][NextSelect]_vars

CheckedButtons == {b \in Buttons : _checked[b]}

(* ------------------------------------------------------------------ *)
(* Claims about the radio group (checked under SpecRadio)              *)
(* ------------------------------------------------------------------ *)

\* C9: when selectOption(k) has returned, from whatever state it was called in:
\* if k < NUM exactly member k is checked and selectedOption() returns k;
\* otherwise no member is checked and selectedOption() is outside [0, NUM).
C9_ExclusiveAfterSelect ==
    completed.op = "selectOption" =>
        IF completed.arg \in 0..(NUM - 1)
        THEN /\ CheckedButtons = {ButtonId(completed.arg)}
             /\ selectedOption(St) = completed.arg
        ELSE /\ CheckedButtons = {}
             /\ selectedOption(St) \notin 0..(NUM - 1)

\* C9 witness: the spec's select(5) on three options, called while an option
\* was selected, has returned
C9_Witness ==
    /\ completed = [op |-> "selectOption", arg |-> 5]
    /\ CheckedButtons = {}
    /\ \E b \in Buttons : revision[b] = next_revision /\ next_revision > 1

\* C10: at most one member of the group is checked in every state, the states
\* inside selectOption and inside the handling of an inbound toggle included.
C10_AtMostOneChecked ==
    Cardinality(CheckedButtons) <= 1

\* C26: whenever no operation of the group is in progress (after construction,
\* after selectOption(index) and after an inbound update for a member has
\* returned), selectedOption() is k in [0, NUM) exactly if member k is the one
\* checked member, and is outside [0, NUM) exactly if no member is checked.
C26_SelectedIndexAgrees ==
    pc.at = "idle" =>
        /\ \A k \in 0..(NUM - 1) :
               (selectedOption(St) = k) <=> (CheckedButtons = {ButtonId(k)})
        /\ (selectedOption(St) \notin 0..(NUM - 1)) <=> (CheckedButtons = {})

(* ------------------------------------------------------------------ *)
(* The page in use: the server program mutates widgets between         *)
(* requests, clients poll and send updates.  Requests are handled one   *)
(* at a time, start to finish (spec.md 5); an Update is executed phase  *)
(* by phase.                                                           *)
(* ------------------------------------------------------------------ *)

\* values the server program sets
SpanValues == {<<"x">>}
TextValues == {<<"a">>}

\* the option the server program selects (the hook selects the last one)
ServerSelectInputs == {1}

\* the fields of an Update request: the widgets of FieldIds may have a value in
\* the field map, one of FieldValues, and at most MaxFields of them have
FieldIds == {"name", "ok", "opt1"}

\* an id in the field map that is no widget's
UnknownIds == {"zzz"}

\* the order the fields are processed in: the widgets' order in the tree, then
\* the ids that are not a widget's
SubmitOrder == TreeOrder \o <<"zzz">>
Alice == <<"A", "l", "i", "c", "e">>
AliceAnd == Alice \o <<"A", "n", "d">>
AliceAndBob == AliceAnd \o <<"B", "o", "b">>
FieldValues(id) ==
    CASE id = "name" -> {Alice, AliceAndBob}
      [] id = "ok" -> {True, False}
      [] OTHER -> {True}

\* the new program state, and what it means for the history variables (the
\* history of the clock's calls is not kept here)
Effects(s, isCommit) ==
    LET mutated == s.touched
                   \cup {w \in DOMAIN _value : s._value[w] # _value[w]}
                   \cup {b \in CheckButtons : s._checked[b] # _checked[b]}
    IN  /\ Install([s EXCEPT !.ret = ret, !.marks = marks, !.commits = commits])
        /\ owed' = owed \cup s.touched
        /\ batch' = IF isCommit THEN {} ELSE batch \cup mutated
        /\ committedBatch' = IF isCommit THEN batch ELSE committedBatch \ mutated

\* no request is being handled and no response is on its way
Quiet == req.kind = "none" /\ resp = NoResponse

ServerSetSpan ==
    \E v \in SpanValues :
        /\ Quiet
        /\ _revision < MaxRev
        /\ Effects(MutableSpan_setValue(St, v), FALSE)
        /\ UNCHANGED <<req, resp, baseline, radioVars>>

ServerSetText ==
    \E v \in TextValues :
        /\ Quiet
        /\ _revision < MaxRev
        /\ Effects(TextInput_setValue(St, v), FALSE)
        /\ UNCHANGED <<req, resp, baseline, radioVars>>

ServerSetChecked ==
    \E checked \in BOOLEAN :
        /\ Quiet
        /\ _revision < MaxRev
        /\ Effects(CheckButton_setChecked(St, "ok", checked), FALSE)
        /\ UNCHANGED <<req, resp, baseline, radioVars>>

ServerSelectOption ==
    \E num \in ServerSelectInputs :
        /\ Quiet
        /\ _revision < MaxRev
        /\ Effects(selectOption(St, num), FALSE)
        /\ UNCHANGED <<req, resp, baseline, radioVars>>

\* Poll: a client asks for the diff against since; a client whose request has
\* been answered but the answer not received asks again, with the same since
Poll ==
    \E since \in 0..(MaxRev + 1) :
        LET r == RunPhases(St, since, pollRequest_order, 1, NoResponse)
        IN  /\ req.kind = "none"
            /\ resp # NoResponse => since = resp.since /\ since = baseline
            /\ resp' = [r.resp EXCEPT
                           !.polls = IF resp.polls >= 1 THEN 2 ELSE 1,
                           !.echo = resp.echo]
            /\ Install(r.s)
            /\ UNCHANGED <<req, baseline, owed, batch, committedBatch, radioVars>>

\* the phase an Update is in
Current(r) ==
    IF r.kind = "update" /\ r.at <= Len(handleRequest_order)
    THEN handleRequest_order[r.at]
    ELSE "none"

\* the phase may begin: it is the current one, or the current one is the apply
\* pass, which ends when no further widget has a submitted value
Ready(r, phase) ==
    \/ Current(r) = phase
    \/ /\ Current(r) = "apply"
       /\ r.at < Len(handleRequest_order)
       /\ handleRequest_order[r.at + 1] = phase

Advance(r, phase) ==
    [r EXCEPT !.at = 1 + CHOOSE i \in 1..Len(handleRequest_order) :
                             handleRequest_order[i] = phase,
              !.done = r.done \cup {phase} \cup (IF Current(r) = "apply" THEN {"apply"} ELSE {})]

\* an Update of the client: its since is the baseline it received last
ReceiveUpdate ==
    /\ Quiet
    /\ _revision < MaxRev
    /\ req' = [NoRequest EXCEPT !.kind = "update", !.at = 1, !.since = baseline,
                                !.visible = Driver_revision(St)]
    /\ Install(St)
    /\ UNCHANGED <<resp, baseline, owed, batch, committedBatch, radioVars>>

\* the apply pass visits the widgets in tree order; the transport adapter
\* reports a value for some of them
ApplyInbound(i, raw) ==
    /\ Current(req) = "apply"
    /\ i > req.pos
    /\ req.applied < MaxFields
    /\ Effects(ApplyInboundField(St, SubmitOrder[i], raw), FALSE)
    /\ req' = [req EXCEPT !.pos = i, !.applied = req.applied + 1,
                          !.fields = @ \cup {<<SubmitOrder[i], raw>>}]
    /\ UNCHANGED <<resp, baseline, radioVars>>

\* a field for one of the page's widgets
ApplyStep ==
    \E i \in 1..Len(SubmitOrder) :
        \E raw \in FieldValues(SubmitOrder[i]) :
            /\ SubmitOrder[i] \in FieldIds
            /\ ApplyInbound(i, raw)

\* a field whose id is no widget's
ApplyUnknownStep ==
    \E i \in 1..Len(SubmitOrder) :
        \E raw \in FieldValues(SubmitOrder[i]) :
            /\ SubmitOrder[i] \in UnknownIds
            /\ ApplyInbound(i, raw)

HookStep ==
    \E hook \in HookChoices :
        /\ Ready(req, "hook")
        /\ Effects(RunHook(St, hook), FALSE)
        /\ req' = [Advance(req, "hook") EXCEPT !.hooks = req.hooks + 1,
                                               !.hooked = RunHook(St, hook).touched]
        /\ UNCHANGED <<resp, baseline, radioVars>>

CommitStep ==
    /\ Ready(req, "commit")
    /\ Effects(Driver_nextRevision(St), TRUE)
    /\ req' = Advance(req, "commit")
    /\ UNCHANGED <<resp, baseline, radioVars>>

DiffStep ==
    /\ Ready(req, "diff")
    /\ resp' = [Response(St, req.since) EXCEPT
                   !.echo = [since |-> req.since, visible |-> req.visible,
                             fields |-> req.fields, hooked |-> req.hooked]]
    /\ req' = NoRequest
    /\ Install(St)
    /\ UNCHANGED <<baseline, owed, batch, committedBatch, radioVars>>

\* the response arrives: the client that sent baseline as since takes the
\* returned revision as its new baseline
Deliver ==
    /\ resp # NoResponse
    /\ resp' = NoResponse
    /\ baseline' = IF resp.since = baseline THEN resp.revision ELSE baseline
    /\ owed' = IF resp.since = baseline THEN {} ELSE owed
    /\ Install(St)
    /\ UNCHANGED <<req, batch, committedBatch, radioVars>>

Next ==
    \/ ServerSetSpan
    \/ ServerSetText
    \/ ServerSetChecked
    \/ ServerSelectOption
    \/ Poll
    \/ ReceiveUpdate
    \/ ApplyStep
    \/ HookStep
    \/ CommitStep
    \/ DiffStep
    \/ Deliver

Spec == Init /\ [][Next]_vars

\* the requests alone, with field maps that also name ids that are no widget's
NextRequests ==
    \/ Poll
    \/ ReceiveUpdate
    \/ ApplyStep
    \/ ApplyUnknownStep
    \/ HookStep
    \/ CommitStep
    \/ DiffStep
    \/ Deliver

SpecRequests == Init /\ [][NextRequests]_vars

(* ------------------------------------------------------------------ *)
(* Claims about the synchronisation (checked under Spec)               *)
(* ------------------------------------------------------------------ *)

\* C1: every element marked changed after the client received its baseline is
\* in the diff of the client's next request made with since = that baseline.
C1_NoMissedUpdates ==
    resp.since = baseline => owed \subseteq IdsOf(resp.out)

\* C1 witness: the client received baseline 2, the span was marked after that,
\* and the response to the client's next request carries the span
C1_Witness ==
    /\ resp.since = baseline
    /\ baseline = 2
    /\ "info" \in owed
    /\ "info" \in IdsOf(resp.out)

\* C2: for every baseline R the diff of the page against R holds exactly the
\* elements whose revision (last_changed) is strictly newer than R.
C2_MinimalDiff ==
    \A R \in 0..(MaxRev + 1) :
        Diff(St, R) = {e \in Elements : revision[e] > R}

\* C2 witness: the span inside the hideable container changed at revision 2,
\* the container and the text input did not; the diff against 1 has the span only
C2_Witness ==
    /\ _revision = 2
    /\ revision["info"] = 2
    /\ revision["box"] = 1
    /\ revision["name"] = 1
    /\ "info" \in Diff(St, 1)
    /\ "box" \notin Diff(St, 1)

\* C3: two widgets mutated between the same two consecutive commits are, for
\* every baseline, both in the diff taken after the commit or both absent.
C3_AtomicBatch ==
    \A R \in 0..(MaxRev + 1) :
        \A w1 \in committedBatch, w2 \in committedBatch :
            (w1 \in Diff(St, R)) <=> (w2 \in Diff(St, R))

\* C4: in an Update every inbound application precedes the reaction hook, the
\* hook precedes the commit, the commit precedes the diff, and the visible
\* revision changes at the commit only, not during the apply pass or the diff.
C4_UpdateOrdering ==
    [][ /\ (ApplyStep => req.done = {})
        /\ (HookStep => req.done \cap {"hook", "commit", "diff"} = {})
        /\ (CommitStep => "hook" \in req.done /\ "diff" \notin req.done)
        /\ (DiffStep => {"hook", "commit"} \subseteq req.done)
        /\ (req.kind = "update" /\ ~CommitStep => _revision' = _revision) ]_vars

\* C4 witness: an Update has applied two fields, run the hook and committed a
\* new revision, and is about to compute the diff
C4_Witness ==
    /\ req.kind = "update"
    /\ req.applied >= 2
    /\ {"apply", "hook", "commit"} \subseteq req.done
    /\ Current(req) = "diff"
    /\ _revision = 2

C17_WrappedSinceSendsEverything ==
    (resp # NoResponse /\ resp.since > _revision) => IdsOf(resp.out) = Elements

\* C17 witness: the visible revision is 2, elements are still at revision 1
\* and the client's since is 3: the diff has all elements, unchanged ones too
C17_Witness ==
    /\ resp.since = 3
    /\ _revision = 2
    /\ next_revision = 2
    /\ revision["box"] = 1
    /\ revision["ok"] = 1
    /\ {"box", "ok"} \subseteq IdsOf(resp.out)

\* C24: every widget mutated before a commit is, after that commit, in the
\* diff of the page against every baseline older than the committed revision.
C24_SettersMarkChanged ==
    \A w \in committedBatch :
        \A R \in 0..(MaxRev + 1) :
            R < _revision => w \in Diff(St, R)

Leaf(id) == Node("element", id, <<>>)
Static == Node("static", "", <<>>)
DeepNode ==
    Node("container", "",
         << Node("container", "",
                 << Node("container", "",
                         << Node("hideable", "box", << Leaf("info") >>), Leaf("name") >>),
                    Leaf("ok") >>),
            Leaf("opt0") >>)
HideableFirstNode ==
    Node("container", "",
         << Node("hideable", "box",
                 << Static,
                    Node("container", "",
                         << Static, Node("container", "", << Leaf("info"), Leaf("opt1") >>) >>),
                    Leaf("ok") >>),
            Leaf("name") >>)
SparseNode ==
    Node("container", "",
         << Node("container", "", <<>>),
            Leaf("name"),
            Node("container", "", << Static, Node("container", "", <<>>) >>),
            Node("hideable", "box", << Node("container", "", <<>>) >>),
            Leaf("ok"),
            Node("container", "", << Static >>) >>)
FlatNode == Node("container", "", << Leaf("name"), Leaf("ok"), Leaf("info") >>)

TreeShapes == {PageNode, DeepNode, HideableFirstNode, SparseNode, FlatNode}

\* an element is marked changed (setVisible, setEnabled, setValue, ... all end
\* in AjaneElement::setChanged)
Touch ==
    \E e \in Elements :
        /\ _revision < MaxRev
        /\ Install(Element_setChanged(St, e))
        /\ UNCHANGED <<pc, completed>>
        /\ UNCHANGED syncVars

NextWalk == Touch \/ Commit

SpecWalk == Init /\ [][NextWalk]_vars

\* the payload has no delimiter before its first record, exactly one between
\* two records and none after the last
WellDelimited(out) ==
    /\ Len(out) = 0 \/ Len(out) % 2 = 1
    /\ \A i \in 1..Len(out) : (out[i] = Delimiter) <=> (i % 2 = 0)

\* C20: for every page shape, every set of changed elements and the baselines
\* 0 (everything changed) and the visible revision (the marked elements
\* changed), the payload sendUpdates writes is well delimited.
C20_DelimiterThreading ==
    \A tree \in TreeShapes : \A since \in {0, _revision} :
        WellDelimited(sendUpdates(St, tree, since, TRUE).out)

\* C20 witness: the span, innermost in a page nested four deep, and the text
\* input are marked, the hideable container around the span is not: the first
\* record comes from the innermost sub-tree and one delimiter follows it
C20_Witness ==
    /\ revision = [e \in Elements |-> IF e \in {"info", "name"} THEN 2 ELSE 1]
    /\ _revision = 1
    /\ sendUpdates(St, DeepNode, 1, TRUE).out
           = <<Record(St, "info"), Delimiter, Record(St, "name")>>

RECURSIVE NodesOf(_)
\* the nodes of a tree: elements, containers, hideable containers and statics
NodesOf(node) ==
    {node} \cup UNION {NodesOf(node.children[i]) : i \in 1..Len(node.children)}

\* the nodes sendUpdates is called on: every node of every page
WalkNodes == UNION {NodesOf(tree) : tree \in TreeShapes}

\* the marks alone: every set of elements is marked changed at the pending
\* revision, the others have the revision of construction
SpecTouch == Init /\ [][Touch]_vars

\* C23: for every node, every set of changed elements, every baseline and both
\* values of first, sendUpdates returns true if and only if the call wrote at
\* least one record.
C23_ReturnsWhetherWritten ==
    \A node \in WalkNodes : \A since \in 0..(MaxRev + 1) : \A first \in BOOLEAN :
        LET w == sendUpdates(St, node, since, first)
        IN  w.sent <=> RecordsOf(w.out) # {}

\* C23 witness: only the span is marked; called with first = false, the hideable
\* container around it (itself unchanged) writes the span's record and returns
\* true, the radio group writes nothing and returns false
C23_Witness ==
    /\ revision = [e \in Elements |-> IF e = "info" THEN 2 ELSE 1]
    /\ _revision = 1
    /\ sendUpdates(St, PageNode.children[3], 1, FALSE)
           = Written(<<Delimiter, Record(St, "info")>>, TRUE)
    /\ sendUpdates(St, RadioGroupNode, 1, FALSE) = Written(<<>>, FALSE)

(* ------------------------------------------------------------------ *)
(* The basic properties on their own: the server program calls         *)
(* setVisible and setEnabled on nodes of a page, and the clock commits *)
(* ------------------------------------------------------------------ *)

BoxNode == PageNode.children[3]

\* the nodes setVisible/setEnabled are called on, each with the page it is in:
\* a page and a page nested four deep, a hideable container, the radio group,
\* a nested container holding the hideable container, an element, a static
PropertyTargets ==
    << [page |-> PageNode, node |-> PageNode],
       [page |-> PageNode, node |-> BoxNode],
       [page |-> PageNode, node |-> RadioGroupNode],
       [page |-> PageNode, node |-> Leaf("info")],
       [page |-> PageNode, node |-> Static],
       [page |-> DeepNode, node |-> DeepNode],
       [page |-> DeepNode, node |-> DeepNode.children[1].children[1]] >>

RECURSIVE ElementsOf(_)
\* the elements of a sub-tree: the node itself if it is one, and its descendants
ElementsOf(node) ==
    (IF toElement(node) # NoElement THEN {toElement(node)} ELSE {})
    \cup UNION {ElementsOf(node.children[i]) : i \in 1..Len(node.children)}

\* the call has returned: what it was called with, the visible revision it was
\* called at, and the elements whose property it changed
PropertyCall(op, target, num, status, s) ==
    [op |-> op,
     arg |-> [target |-> target, status |-> status, baseline |-> _revision,
              changed |-> {e \in Elements : basicProperty(s, e, num) # basicProperty(St, e, num)}]]

\* the server program makes one call between two commits
SetVisible(target, visible) ==
    LET s == Base_setVisible(St, PropertyTargets[target].node, visible)
    IN  /\ _revision < MaxRev
        /\ marks = 0
        /\ Install(s)
        /\ completed' = PropertyCall("setVisible", target, Visibility, visible, s)
        /\ UNCHANGED pc
        /\ UNCHANGED syncVars

SetEnabled(target, enabled) ==
    LET s == Base_setEnabled(St, PropertyTargets[target].node, enabled)
    IN  /\ _revision < MaxRev
        /\ marks = 0
        /\ Install(s)
        /\ completed' = PropertyCall("setEnabled", target, Enabledness, enabled, s)
        /\ UNCHANGED pc
        /\ UNCHANGED syncVars

CallSetVisible ==
    \E target \in 1..Len(PropertyTargets), visible \in BOOLEAN : SetVisible(target, visible)

CallSetEnabled ==
    \E target \in 1..Len(PropertyTargets), enabled \in BOOLEAN : SetEnabled(target, enabled)

NextProperty == CallSetVisible \/ CallSetEnabled \/ Commit

SpecProperty == Init /\ [][NextProperty]_vars

\* after the call: every element of the node's sub-tree has the property equal
\* to status, no other element's flags or revision changed, and the elements
\* whose property changed are marked at the pending revision, visible + 1
Broadcast(target, num, status) ==
    LET sub == ElementsOf(PropertyTargets[target].node)
    IN  /\ \A e \in sub : basicProperty(St, e, num)' = status
        /\ \A e \in sub : basicProperty(St, e, 1 - num)' = basicProperty(St, e, 1 - num)
        /\ \A e \in Elements \ sub : _flags'[e] = _flags[e] /\ revision'[e] = revision[e]
        /\ \A e \in completed'.arg.changed :
               e \in sub /\ revision'[e] = (_revision + 1) % RevisionMod
        /\ sub = {} => UNCHANGED <<_revision, next_revision, revision, _flags>>
        /\ UNCHANGED <<_checked, _current_option, _value, _revision>>

\* C21: setVisible(v) / setEnabled(v) on a node gives every element of its
\* sub-tree (a hideable container itself included) the property value v and
\* changes nothing outside it (a static has nothing to change); and the commit
\* that follows puts every element whose property changed in the diff of the
\* page against the visible revision of before the call.
C21_PropertyBroadcast ==
    [][ /\ (completed'.op = "setVisible"
                /\ SetVisible(completed'.arg.target, completed'.arg.status))
               => Broadcast(completed'.arg.target, Visibility, completed'.arg.status)
        /\ (completed'.op = "setEnabled"
                /\ SetEnabled(completed'.arg.target, completed'.arg.status))
               => Broadcast(completed'.arg.target, Enabledness, completed'.arg.status)
        /\ (completed.op \in {"setVisible", "setEnabled"} /\ Commit)
               => completed.arg.changed \subseteq
                      IdsOf(sendUpdates(Driver_nextRevision(St),
                                        PropertyTargets[completed.arg.target].page,
                                        completed.arg.baseline, TRUE).out) ]_vars

\* the record of element e in the diff of page against since has exactly the
\* properties of the set which
RecordHolds(s, page, since, e, which) ==
    \E r \in RecordsOf(sendUpdates(s, page, since, TRUE).out) :
        /\ r.id = e
        /\ {r.changes[i].which : i \in 1..Len(r.changes)} = which

\* when each property of the element last changed before the call was not
\* after the visible revision, the record of an element whose property the
\* call changed holds, in the diff against the visible revision, num only
OnlyChanged(s, target, num) ==
    \A e \in completed'.arg.changed :
        revision[e] <= _revision
            => RecordHolds(s, PropertyTargets[target].page, _revision, e, {num})

\* C22: the record of a changed element holds only the properties that changed
\* since the baseline: after setVisible / setEnabled changed a property of an
\* element that had no change after the visible revision, the element's
\* record in the diff against that revision holds that property and no other.
C22_OnlyChangedProperties ==
    [][ /\ (completed'.op = "setVisible"
                /\ SetVisible(completed'.arg.target, completed'.arg.status))
               => OnlyChanged(Base_setVisible(St, PropertyTargets[completed'.arg.target].node,
                                              completed'.arg.status),
                              completed'.arg.target, Visibility)
        /\ (completed'.op = "setEnabled"
                /\ SetEnabled(completed'.arg.target, completed'.arg.status))
               => OnlyChanged(Base_setEnabled(St, PropertyTargets[completed'.arg.target].node,
                                              completed'.arg.status),
                              completed'.arg.target, Enabledness) ]_vars

\* C21 witness: the span had been hidden; setVisible(false) on the hideable
\* container around it changed the container's property only, was committed as
\* revision 3, and the diff against 2 has the container
C21_Witness ==
    /\ completed.op = "setVisible"
    /\ completed.arg = [target |-> 2, status |-> FALSE, baseline |-> 2, changed |-> {"box"}]
    /\ _revision = 3
    /\ ~basicProperty(St, "box", Visibility)
    /\ ~basicProperty(St, "info", Visibility)
    /\ basicProperty(St, "name", Visibility)
    /\ "box" \in Diff(St, 2)

(* ------------------------------------------------------------------ *)
(* The text input on its own: values arrive from the client            *)
(* (updateFromDriverArg) and are set by the server program (setValue)  *)
(* ------------------------------------------------------------------ *)

\* the values the client sends: "AliceAndBob" and every prefix of it
InboundTexts == {SubSeq(AliceAndBob, 1, n) : n \in 0..Len(AliceAndBob)}

\* the values the server program sets: a short one, and one of SIZE chars
ServerTexts == {<<"a">>, [i \in 1..SIZE |-> "x"]}

ReceiveText ==
    \E raw \in InboundTexts :
        /\ Install(TextInput_updateFromDriverArg(St, raw))
        /\ completed' = [op |-> "updateFromDriverArg", arg |-> raw]
        /\ UNCHANGED pc
        /\ UNCHANGED syncVars

SetText ==
    \E v \in ServerTexts :
        /\ Install(TextInput_setValue(St, v))
        /\ completed' = [op |-> "setValue", arg |-> v]
        /\ UNCHANGED pc
        /\ UNCHANGED syncVars

NextText == ReceiveText \/ SetText

SpecText == Init /\ [][NextText]_vars

\* the first n chars of a value
Truncate(v, n) == SubSeq(v, 1, Min(Len(v), n))

Fits(e, v) == e = "name" => Len(v) < SIZE

C15_HookChangesEchoed ==
    (resp.echo # NoEcho /\ resp.polls = 0) => resp.echo.hooked \subseteq IdsOf(resp.out)

\* C15 witness: the client checked option 1, the hook selected the last option
\* instead, and the Update's own response has the records of both buttons
C15_Witness ==
    /\ resp.polls = 0
    /\ resp.echo.fields = {<<"opt1", True>>}
    /\ resp.echo.hooked = {"opt1", "opt2"}
    /\ {"opt1", "opt2"} \subseteq IdsOf(resp.out)
    /\ ~_checked["opt1"]
    /\ _checked["opt2"]

\* the widgets an inbound field for id may change: the widget, and with a
\* button of the radio group the other buttons of the group
Affected(id) == IF id \in Buttons THEN Buttons ELSE {id}

\* widget w keeps its value and its revision in this step
Untouched(w) ==
    /\ revision'[w] = revision[w]
    /\ w \in DOMAIN _value => _value'[w] = _value[w]
    /\ w \in CheckButtons => _checked'[w] = _checked[w]

\* C16: a field whose id matches no widget is processed without changing any
\* widget's value or revision; an applied field changes no widget but its own
\* (and its group's); the hook changes none but those it marks; and no other
\* step of an Update changes a widget.
C16_UnknownAndAbsentFields ==
    [][ /\ (ApplyUnknownStep => /\ \A w \in Elements : Untouched(w)
                                /\ UNCHANGED <<_revision, next_revision, _current_option>>
                                /\ req'.applied = req.applied + 1)
        /\ \A i \in 1..Len(SubmitOrder) : \A raw \in FieldValues(SubmitOrder[i]) :
               (ApplyInbound(i, raw) /\ SubmitOrder[i] \in FieldIds)
                   => \A w \in Elements \ Affected(SubmitOrder[i]) : Untouched(w)
        /\ (HookStep => \A w \in Elements \ req'.hooked : Untouched(w))
        /\ (ReceiveUpdate \/ CommitStep \/ DiffStep => \A w \in Elements : Untouched(w)) ]_vars

\* C16 witness: an Update with a field for "name" and a field for an unknown id
\* is about to compute its diff: "name" has the new revision, the check button
\* and the span, absent from the field map, have the revision of construction
C16_Witness ==
    /\ Current(req) = "diff"
    /\ req.fields = {<<"name", Alice>>, <<"zzz", True>>}
    /\ req.hooked = {}
    /\ revision["name"] = 2
    /\ revision["ok"] = 1
    /\ revision["info"] = 1
    /\ revision["box"] = 1

(* ------------------------------------------------------------------ *)
(* Claims about selectOption(uint8_t) (checked under SpecSelect)       *)
(* ------------------------------------------------------------------ *)

\* C19: selectOption(k) marks exactly the members whose checked state changes:
\* each iteration gives the member it sets the pending revision visible + 1 if
\* the member's state changed, and otherwise leaves the member's revision and
\* the pending revision as they are; nothing else is touched, so re-selecting
\* the selected option marks no member and creates no pending revision.
C19_MinimalMarkingOnSelect ==
    [][ /\ (StepSelectOption =>
               /\ \A w \in Elements \ {ButtonId(pc.i)} : Untouched(w)
               /\ UNCHANGED _revision
               /\ IF _checked'[ButtonId(pc.i)] # _checked[ButtonId(pc.i)]
                  THEN /\ revision'[ButtonId(pc.i)] = next_revision'
                       /\ next_revision' = (_revision + 1) % RevisionMod
                  ELSE /\ revision'[ButtonId(pc.i)] = revision[ButtonId(pc.i)]
                       /\ next_revision' = next_revision)
        /\ (CallSelectOption \/ ReturnSelectOption =>
               /\ \A w \in Elements : Untouched(w)
               /\ UNCHANGED <<_revision, next_revision>>) ]_vars

\* C19 witness: selectOption(1) is called again after selectOption(1) was
\* committed as revision 2: all its iterations are done and nothing is pending;
\* option 2, unchanged in both calls, still has the revision of construction
C19_Witness ==
    /\ pc = [at |-> "selectOption", i |-> NUM, arg |-> 1]
    /\ CheckedButtons = {"opt1"}
    /\ _revision = 2
    /\ next_revision = 2
    /\ revision["opt0"] = 2
    /\ revision["opt1"] = 2
    /\ revision["opt2"] = 1

====
